---- MODULE Spec2Model ----
(***************************************************************************)
(* Model of the GNU Radio module tool front end: the block name validator, *)
(* the block file correlator (getBlockFilesTree), the tree root, the two   *)
(* pickers and the commands that drive the external gr_modtool process.    *)
(*                                                                         *)
(* A string is a sequence of one-character strings; the empty sequence     *)
(* stands for both '' and undefined where the code only tests falsiness.   *)
(***************************************************************************)
EXTENDS Integers, Sequences, FiniteSets, TLC

\* ------------------------------------------------------------------------
\* Bounds
\* ------------------------------------------------------------------------

\* longest candidate handed to the validator on its own
MaxLen == 3

\* longest block name or pattern passed to a command or typed into a picker
MaxPattern == 2

\* ------------------------------------------------------------------------
\* Characters and strings
\* ------------------------------------------------------------------------

Letters == {"a", "b", "c", "d", "e", "f", "g", "h", "i", "j", "k", "l", "m",
            "n", "o", "p", "q", "r", "s", "t", "u", "v", "w", "x", "y", "z",
            "A", "B", "Z"}

Digits == {"0", "1"}

WhiteSpace == {" "}

\* the characters of the candidate names handed to the validator
Alphabet == {"a", "b", "_", ",", ".", " "}

\* the characters of the block names and patterns handed to the commands
PatternAlphabet == {"a", "b", ".", "*"}

StrOver(A, n) == UNION {[1..k -> A] : k \in 0..n}

StartsWith(s, p) == Len(p) <= Len(s) /\ SubSeq(s, 1, Len(p)) = p

EndsWith(s, p) == Len(p) <= Len(s) /\ SubSeq(s, Len(s) - Len(p) + 1, Len(s)) = p

Includes(s, p) == \E i \in 1..(Len(s) + 1) : StartsWith(SubSeq(s, i, Len(s)), p)

RECURSIVE TrimStart(_)
TrimStart(s) ==
    IF s # <<>> /\ Head(s) \in WhiteSpace THEN TrimStart(Tail(s)) ELSE s

RECURSIVE TrimEnd(_)
TrimEnd(s) ==
    IF s # <<>> /\ s[Len(s)] \in WhiteSpace
    THEN TrimEnd(SubSeq(s, 1, Len(s) - 1))
    ELSE s

\* String.prototype.trim
Trim(s) == TrimEnd(TrimStart(s))

InSeq(x, s) == \E i \in 1..Len(s) : s[i] = x

\* ------------------------------------------------------------------------
\* validateBlockName
\* ------------------------------------------------------------------------

\* \w of the host's regular expressions
IsWordChar(c) == c \in Letters \cup Digits \cup {"_"}

\* /^([\w,\_]+)$/.test(name): the character class is \w, ',' and '_'
NameTest(name) ==
    /\ Len(name) >= 1
    /\ \A i \in 1..Len(name) : IsWordChar(name[i]) \/ name[i] \in {",", "_"}

Valid == [severity |-> "None", message |-> ""]

ErrEmpty == [severity |-> "Error", message |-> "Name cannot be empty"]

ErrIllFormed ==
    [severity |-> "Error",
     message |-> "Name can only contain ASCII letters, digits and underscores"]

WarnShort ==
    [severity |-> "Warning",
     message |-> "Descriptive names usually contain at least 3 symbols"]

ErrPresent ==
    [severity |-> "Error", message |-> "Block with that name is already present"]

\* mutants of validateBlockName
validateBlockName_NoTrim(existingBlocks, value) ==
    LET name == value IN
    IF Len(name) = 0 THEN ErrEmpty
    ELSE IF ~NameTest(name) THEN ErrIllFormed
    ELSE IF Len(name) < 3 THEN WarnShort
    ELSE IF InSeq(name, existingBlocks) THEN ErrPresent
    ELSE Valid

validateBlockName_ShortIsError(existingBlocks, value) ==
    LET name == Trim(value) IN
    IF Len(name) = 0 THEN ErrEmpty
    ELSE IF ~NameTest(name) THEN ErrIllFormed
    ELSE IF Len(name) < 3 THEN [WarnShort EXCEPT !.severity = "Error"]
    ELSE IF InSeq(name, existingBlocks) THEN ErrPresent
    ELSE Valid

\* validateBlockName(existingBlocks)(value); existingBlocks is the Set in
\* insertion order
validateBlockName(existingBlocks, value) ==
    LET name == Trim(value) IN
    IF Len(name) = 0 THEN ErrEmpty
    ELSE IF ~NameTest(name) THEN ErrIllFormed
    ELSE IF Len(name) < 3 THEN WarnShort
    ELSE IF InSeq(name, existingBlocks) THEN ErrPresent
    ELSE Valid

\* ------------------------------------------------------------------------
\* File names
\* ------------------------------------------------------------------------

\* path.extname: from the last '.', empty when there is none or it leads
RECURSIVE LastDot(_, _)
LastDot(name, i) ==
    IF i = 0 THEN 0
    ELSE IF name[i] = "." THEN i
    ELSE LastDot(name, i - 1)

extname(name) ==
    LET d == LastDot(name, Len(name)) IN
    IF d <= 1 THEN <<>> ELSE SubSeq(name, d, Len(name))

\* the name without its extension
Stem(name) == SubSeq(name, 1, Len(name) - Len(extname(name)))

ExtH == <<".", "h">>
ExtPy == <<".", "p", "y">>
ExtCc == <<".", "c", "c">>
ExtCpp == <<".", "c", "p", "p">>
ExtCxx == <<".", "c", "x", "x">>
ExtXml == <<".", "x", "m", "l">>
ExtBlockYml == <<".", "b", "l", "o", "c", "k", ".", "y", "m", "l">>
SufImpl == <<"_", "i", "m", "p", "l">>
SufPython == <<"_", "p", "y", "t", "h", "o", "n">>
SufTest == <<"_", "t", "e", "s", "t">>
PreQa == <<"q", "a", "_">>
NameApiH == <<"a", "p", "i", ".", "h">>
NameInitPy == <<"_", "_", "i", "n", "i", "t", "_", "_", ".", "p", "y">>
NameBindings == <<"b", "i", "n", "d", "i", "n", "g", "s">>

\* the module name of the project
moduleName == <<"m">>

\* the block identifiers of the modelled projects
Bab == <<"a", "b">>
Baba == <<"a", "b", "a">>

\* ------------------------------------------------------------------------
\* Regular expressions of the host, restricted to literals, '.' and '*'
\* ------------------------------------------------------------------------

\* RegExp(source) throws a SyntaxError when a '*' has nothing to repeat
RegExpValid(p) == \A i \in 1..Len(p) : p[i] = "*" => (i > 1 /\ p[i - 1] # "*")

CharMatch(pc, c) == pc = "." \/ pc = c

RECURSIVE MatchHere(_, _, _, _)
MatchHere(p, i, s, j) ==
    IF i > Len(p) THEN TRUE
    ELSE IF i < Len(p) /\ p[i + 1] = "*"
    THEN \E n \in 0..(Len(s) - j + 1) :
            /\ \A k \in j..(j + n - 1) : CharMatch(p[i], s[k])
            /\ MatchHere(p, i + 2, s, j + n)
    ELSE /\ j <= Len(s)
         /\ CharMatch(p[i], s[j])
         /\ MatchHere(p, i + 1, s, j + 1)

\* RegExp(p).test(s): a match may start anywhere and end anywhere
RegExpTest(p, s) == \E j \in 1..(Len(s) + 1) : MatchHere(p, 1, s, j)

\* ------------------------------------------------------------------------
\* The project on disk
\* ------------------------------------------------------------------------

File(name) == [name |-> name, type |-> "File"]

Directory(name) == [name |-> name, type |-> "Directory"]

NoDir == [exists |-> FALSE, entries |-> <<>>]

Dir(entries) == [exists |-> TRUE, entries |-> entries]

GrcDirs ==
    { NoDir,
      Dir(<< >>),
      Dir(<< File(moduleName \o <<"_">> \o Bab \o ExtBlockYml),
             File(moduleName \o <<"_">> \o Baba \o ExtXml) >>) }

IncludeDirs ==
    { NoDir,
      Dir(<< File(NameApiH), File(moduleName \o ExtH) >>),
      Dir(<< File(Baba \o ExtH), File(NameApiH), File(Bab \o ExtH) >>) }

PythonDirs ==
    { NoDir,
      Dir(<< File(NameInitPy), Directory(NameBindings) >>),
      Dir(<< File(NameInitPy), File(Bab \o ExtPy), File(PreQa \o Bab \o ExtPy),
             File(PreQa \o Baba \o ExtPy), Directory(NameBindings) >>) }

LibDirs ==
    { NoDir,
      Dir(<< File(Bab \o SufImpl \o ExtCc), File(Bab \o SufImpl \o ExtH),
             File(PreQa \o Bab \o ExtCc) >>),
      Dir(<< File(Baba \o SufImpl \o ExtCc), File(Baba \o SufImpl \o ExtH),
             File(Bab \o SufImpl \o ExtCc), File(PreQa \o Baba \o ExtCc) >>) }

AllDirs == [grc : GrcDirs, include : IncludeDirs, python : PythonDirs, lib : LibDirs]

Missing(l) == {d \in {"grc", "include", "python", "lib"} : ~l[d].exists}

FullLayout ==
    [grc |-> Dir(<< File(moduleName \o <<"_">> \o Bab \o ExtBlockYml),
                    File(moduleName \o <<"_">> \o Baba \o ExtXml) >>),
     include |-> Dir(<< File(Baba \o ExtH), File(NameApiH), File(Bab \o ExtH) >>),
     python |-> Dir(<< File(NameInitPy), File(Bab \o ExtPy), File(PreQa \o Bab \o ExtPy),
                       File(PreQa \o Baba \o ExtPy), Directory(NameBindings) >>),
     lib |-> Dir(<< File(Baba \o SufImpl \o ExtCc), File(Baba \o SufImpl \o ExtH),
                    File(Bab \o SufImpl \o ExtCc), File(PreQa \o Baba \o ExtCc) >>)]

\* the project layouts of the model: grc, include/gnuradio/<module>,
\* python/<module> and lib all present with few or many files, none of
\* them present, or one of them missing from the full project; and the
\* full project with a subdirectory of lib named like a header of a block,
\* with and without its grc directory
Layouts ==
    LET subdirectory ==
            Dir(FullLayout.lib.entries \o <<Directory(Bab \o SufImpl \o ExtH)>>)
    IN  {l \in AllDirs :
            \/ Missing(l) = {}
            \/ Cardinality(Missing(l)) = 4
            \/ /\ Cardinality(Missing(l)) = 1
               /\ \A d \in {"grc", "include", "python", "lib"} \ Missing(l) :
                    l[d] = FullLayout[d]}
        \cup {[FullLayout EXCEPT !.lib = subdirectory],
              [FullLayout EXCEPT !.lib = subdirectory, !.grc = NoDir]}

\* ------------------------------------------------------------------------
\* The path classifier and the inventory builder
\* ------------------------------------------------------------------------

filterGrcBlocks(name) == EndsWith(name, ExtBlockYml)

filterXmlBlocks(name) == EndsWith(name, ExtXml)

\* mapGrcBlocks(moduleName, extension)(name): the module prefix, its '_' and
\* the extension stripped
mapGrcBlocks(extension, name) ==
    SubSeq(name, Len(moduleName) + 2, Len(name) - Len(extension))

\* <moduleName>_<blockId><extension> with a block identifier in it
IsModuleDefinition(extension, name) ==
    /\ StartsWith(name, moduleName \o <<"_">>)
    /\ EndsWith(name, extension)
    /\ Len(name) > Len(moduleName) + 1 + Len(extension)

filterBlockTests(name) == StartsWith(name, PreQa) \/ EndsWith(Stem(name), SufTest)

filterCppBlocks(name) == extname(name) = ExtH /\ name # NameApiH

mapCppBlocks(name) == Stem(name)

filterPyBlocks(name) ==
    /\ extname(name) = ExtPy
    /\ name # NameInitPy
    /\ ~filterBlockTests(name)

filterCppImplFiles(name) ==
    /\ extname(name) \in {ExtCc, ExtCpp, ExtCxx}
    /\ ~filterBlockTests(name)
    /\ ~EndsWith(Stem(name), SufPython)

StripSuffix(s, suf) == IF EndsWith(s, suf) THEN SubSeq(s, 1, Len(s) - Len(suf)) ELSE s

StripPrefix(s, pre) == IF StartsWith(s, pre) THEN SubSeq(s, Len(pre) + 1, Len(s)) ELSE s

mapCppImplFiles(name) == StripSuffix(Stem(name), SufImpl)

\* the block a test file belongs to
mapBlockTests(name) == StripSuffix(StripPrefix(Stem(name), PreQa), SufTest)

Names(dir) == [i \in 1..Len(dir.entries) |-> dir.entries[i].name]

RECURSIVE AddAll(_, _)
\* a Set in insertion order: each element of more added unless present
AddAll(set, more) ==
    IF more = <<>> THEN set
    ELSE AddAll(IF InSeq(Head(more), set) THEN set ELSE Append(set, Head(more)),
                Tail(more))

\* blocks with a public header; a missing directory lists nothing
getCppBlocks(fs) ==
    LET kept == SelectSeq(Names(fs.include),
                          LAMBDA n : filterCppBlocks(n) /\ n # moduleName \o ExtH)
    IN  [i \in 1..Len(kept) |-> mapCppBlocks(kept[i])]

\* blocks with a definition of the current format
getGrcBlocks(fs) ==
    LET kept == SelectSeq(Names(fs.grc), LAMBDA n : IsModuleDefinition(ExtBlockYml, n))
    IN  [i \in 1..Len(kept) |-> mapGrcBlocks(ExtBlockYml, kept[i])]

\* blocks with a legacy definition
getXmlBlocks(fs) ==
    LET kept == SelectSeq(Names(fs.grc), LAMBDA n : IsModuleDefinition(ExtXml, n))
    IN  [i \in 1..Len(kept) |-> mapGrcBlocks(ExtXml, kept[i])]

getPyBlocks(fs) ==
    LET kept == SelectSeq(Names(fs.python), filterPyBlocks)
    IN  [i \in 1..Len(kept) |-> Stem(kept[i])]

\* blocks with a library implementation source
getCppImplFiles(fs) ==
    LET kept == SelectSeq(Names(fs.lib), filterCppImplFiles)
    IN  [i \in 1..Len(kept) |-> mapCppImplFiles(kept[i])]

\* all blocks: a block with any one facet counts
getAllBlocks(fs) ==
    AddAll(AddAll(AddAll(AddAll(AddAll(<<>>, getCppBlocks(fs)), getGrcBlocks(fs)),
                         getXmlBlocks(fs)), getPyBlocks(fs)), getCppImplFiles(fs))

\* the block a file of a directory belongs to, by the classifier's rules
BlockIdOf(dir, name) ==
    IF dir = "grc"
    THEN (IF filterXmlBlocks(name) THEN mapGrcBlocks(ExtXml, name)
          ELSE mapGrcBlocks(ExtBlockYml, name))
    ELSE IF filterBlockTests(name) THEN mapBlockTests(name)
    ELSE IF dir = "lib" THEN mapCppImplFiles(name)
    ELSE Stem(name)

\* ------------------------------------------------------------------------
\* The block file correlator
\* ------------------------------------------------------------------------

\* an error: its name and its message, a text of one or more lines
NoError == [name |-> "", message |-> <<>>]

ErrNotFound == [name |-> "FileNotFound", message |-> <<"EntryNotFound (FileSystemError)">>]

ErrNotAFile == [name |-> "Error", message |-> <<"Expected a file, got something else">>]

ErrSyntax == [name |-> "SyntaxError", message |-> <<"Invalid regular expression">>]

Fail(e) == [ok |-> FALSE, error |-> e, items |-> <<>>]

Done(items) == [ok |-> TRUE, error |-> NoError, items |-> items]

HasNonFile(entries) == \E i \in 1..Len(entries) : entries[i].type # "File"

\* entries.map(mapBlockToTreeItem(label, pathSegments)), once every entry is
\* known to be a file
mapBlockToTreeItem(label, dir, entries) ==
    [i \in 1..Len(entries) |-> [label |-> label, dir |-> dir, name |-> entries[i].name]]

\* value[0].startsWith(block) && blocks.filterCppBlocks(value[0])
HeaderOfBlock(block, name) == StartsWith(name, block) /\ filterCppBlocks(name)

DefinitionOfBlock(block, name) ==
    /\ StartsWith(name, moduleName \o <<"_">> \o block)
    /\ (filterGrcBlocks(name) \/ filterXmlBlocks(name))

PyOfBlock(block, name) == StartsWith(name, block) /\ filterPyBlocks(name)

PyTestOfBlock(block, name) == filterBlockTests(name) /\ EndsWith(name, block \o ExtPy)

ImplOfBlock(block, name) ==
    /\ StartsWith(name, block)
    /\ (filterCppImplFiles(name) \/ extname(name) = ExtH)

\* RegExp(`${block}\.(cc|cpp|cxx)`).test(name): the escape is lost in the
\* template literal, so the dot matches any character
CppTestRegExp(block, name) ==
    \E ext \in {<<"c", "c">>, <<"c", "p", "p">>, <<"c", "x", "x">>} :
        RegExpTest(block \o <<".">> \o ext, name)

CppTestOfBlock(block, name) == filterBlockTests(name) /\ CppTestRegExp(block, name)

ImplLabel(name) ==
    IF extname(name) = ExtH THEN "Implementation header" ELSE "Implementation source"

\* mutant: the arrays are returned in the order they are declared in
Presentation_AsDeclared(grcFiles, cppFiles, pyFiles, pyTestFiles, cppImplFiles, cppTestFiles) ==
    grcFiles \o cppFiles \o pyFiles \o pyTestFiles \o cppImplFiles \o cppTestFiles

\* return [...grcFiles, ...pyFiles, ...cppFiles, ...cppImplFiles,
\*         ...pyTestFiles, ...cppTestFiles]
Presentation(grcFiles, cppFiles, pyFiles, pyTestFiles, cppImplFiles, cppTestFiles) ==
    grcFiles \o pyFiles \o cppFiles \o cppImplFiles \o pyTestFiles \o cppTestFiles

\* getBlockFilesTree(block, baseUri, moduleName): the records in the order
\* of the returned array, or the error the call rejects with
getBlockFilesTree(block, fs) ==
    LET grcSel == SelectSeq(fs.grc.entries, LAMBDA v : DefinitionOfBlock(block, v.name))
        cppSel == SelectSeq(fs.include.entries, LAMBDA v : HeaderOfBlock(block, v.name))
        pySel == SelectSeq(fs.python.entries, LAMBDA v : PyOfBlock(block, v.name))
        pyTestSel == SelectSeq(fs.python.entries, LAMBDA v : PyTestOfBlock(block, v.name))
        implSel == SelectSeq(fs.lib.entries, LAMBDA v : ImplOfBlock(block, v.name))
        anyTest == \E i \in 1..Len(fs.lib.entries) : filterBlockTests(fs.lib.entries[i].name)
        cppTestSel == SelectSeq(fs.lib.entries, LAMBDA v : CppTestOfBlock(block, v.name))
        grcFiles == mapBlockToTreeItem("Block definition", "grc", grcSel)
        cppFiles == mapBlockToTreeItem("Public header", "include", cppSel)
        pyFiles == mapBlockToTreeItem("Implementation", "python", pySel)
        pyTestFiles == mapBlockToTreeItem("Python Tests", "python", pyTestSel)
        cppImplFiles ==
            [i \in 1..Len(implSel) |->
                [label |-> ImplLabel(implSel[i].name), dir |-> "lib",
                 name |-> implSel[i].name]]
        cppTestFiles == mapBlockToTreeItem("C++ Tests", "lib", cppTestSel)
    IN  IF ~fs.grc.exists THEN Fail(ErrNotFound)
        ELSE IF HasNonFile(grcSel) THEN Fail(ErrNotAFile)
        ELSE IF ~fs.include.exists THEN Fail(ErrNotFound)
        ELSE IF HasNonFile(cppSel) THEN Fail(ErrNotAFile)
        ELSE IF ~fs.python.exists THEN Fail(ErrNotFound)
        ELSE IF HasNonFile(pySel) \/ HasNonFile(pyTestSel) THEN Fail(ErrNotAFile)
        ELSE IF ~fs.lib.exists THEN Fail(ErrNotFound)
        ELSE IF HasNonFile(implSel) THEN Fail(ErrNotAFile)
        ELSE IF anyTest /\ ~RegExpValid(block) THEN Fail(ErrSyntax)
        ELSE IF HasNonFile(cppTestSel) THEN Fail(ErrNotAFile)
        ELSE Done(Presentation(grcFiles, cppFiles, pyFiles, pyTestFiles,
                               cppImplFiles, cppTestFiles))

\* ------------------------------------------------------------------------
\* What the external tool returns
\* ------------------------------------------------------------------------

\* a result of the tool is its captured output or a PythonShellError with a
\* message and an optional log; a log is its text split at the ends of
\* line, so the log '' is one empty line
NoResult == [kind |-> "none", log |-> [defined |-> FALSE, lines |-> <<>>], message |-> ""]

\* the outputs of `gr_modtool info --python-readable` and of the other runs
Outputs ==
    {[kind |-> "output", log |-> NoResult.log, message |-> text] :
        text \in {"{'modname': 'm'}", "done"}}

\* the failures: without a log, with an empty log, with a log of several
\* lines that ends in an end of line, with a log that names ImportError
Failures ==
    {[kind |-> "PythonShellError", log |-> log, message |-> "exit code 1"] :
        log \in { NoResult.log,
                  [defined |-> TRUE, lines |-> <<"">>],
                  [defined |-> TRUE,
                   lines |-> <<"Traceback", "ModToolException: block not found", "">>],
                  [defined |-> TRUE,
                   lines |-> <<"ImportError: No module named gnuradio", "Traceback">>] }}

\* log?.includes('ImportError')
LogIncludesImportError(log) ==
    /\ log.defined
    /\ \E i \in 1..Len(log.lines) : log.lines[i] = "ImportError: No module named gnuradio"

RECURSIVE LinesTrimEnd(_)
\* log.trimEnd(): the empty lines at the end dropped (the lines of the
\* model end in no white space)
LinesTrimEnd(lines) ==
    IF lines = <<>> THEN <<>>
    ELSE IF lines[Len(lines)] = "" THEN LinesTrimEnd(SubSeq(lines, 1, Len(lines) - 1))
    ELSE lines

\* mutant: the log is dropped and the message alone is reported
ErrorText_MessageOnly(c, r) == <<r.message>>

\* the text of the ModtoolError a command raises from the failure r
ErrorText(c, r) ==
    CASE c = "getModuleInfo" ->
            IF LogIncludesImportError(r.log)
            THEN <<"Python modules for GNURadio not found. Please check if GNURadio is installed on your system.">>
            ELSE <<r.message>>
      [] c = "convertXmlToYaml" ->
            LET kept == LinesTrimEnd(r.log.lines) IN
            IF r.log.defined
            THEN <<IF kept = <<>> THEN "" ELSE kept[Len(kept)]>>
            ELSE <<r.message>>
      [] OTHER ->
            IF r.log.defined THEN r.log.lines ELSE <<r.message>>

\* ------------------------------------------------------------------------
\* State
\* ------------------------------------------------------------------------

VARIABLES
    fs,             \* the project on disk
    cmd,            \* the command that runs, "none" before one is started
    pc,             \* where the command is: its pending await or its end
    existingBlocks, \* the inventory the command read (cppBlocks for bind)
    blockName,      \* the block name or pattern of the command
    pick,           \* the open picker: its items and its value
    candidate,      \* the value of the input box
    verdict,        \* what validateInput returned for it
    newBlockName,   \* the name showInputBox resolved to
    msg,            \* the texts the command prepared for its dialogs
    invoked,        \* the calls of the external tool, in order
    shown,          \* the information messages shown, in order
    error,          \* what the command threw
    state,          \* the State of the createBlock wizard and its prompt
    opened,         \* the files opened in the editor
    confirm,        \* the answer to the modal confirmation, "none" before it
    result,         \* what the external tool returned last
    treeRoot,       \* the items the tree view lists at its root
    expanded,       \* the label of the tree item expanded last
    treeFiles,      \* the children getChildren returned for it
    scans           \* the calls of getBlockFilesTree in flight, one per caller

vars == <<fs, cmd, pc, existingBlocks, blockName, pick, candidate, verdict,
          newBlockName, msg, invoked, shown, error, state, opened, confirm,
          result, treeRoot, expanded, treeFiles, scans>>

\* the variables of the tree view and of the calls it issues
treeVars == <<treeRoot, expanded, treeFiles, scans>>

\* the variables the wizard of createBlock owns
wizardVars == <<state, opened>>

\* the callers of getBlockFilesTree that may overlap
Callers == {1, 2}

\* a call of getBlockFilesTree: the await it is at, its block, the arrays it
\* holds in its own closure and what it settled with; overlapped records
\* that the other call was in flight during this one
NoScan ==
    [pc |-> "idle", block |-> <<>>, grcFiles |-> <<>>, cppFiles |-> <<>>,
     pyFiles |-> <<>>, pyTestFiles |-> <<>>, settled |-> Done(<<>>),
     overlapped |-> FALSE]

NoPick == [base |-> <<>>, items |-> <<>>, value |-> <<>>]

NoMsg ==
    [warning |-> [kind |-> "none", text |-> "", block |-> <<>>],
     head |-> "",
     matching |-> <<>>,
     files |-> <<>>,
     success |-> [text |-> "", blocks |-> <<>>]]

\* let state = <State>{ title, totalSteps: 5, finished: false }; prompt is
\* the step function that awaits its input, step and shownTotal what it shows
NoState ==
    [prompt |-> "none", step |-> 0, shownTotal |-> 0, totalSteps |-> 5,
     copyright |-> <<>>, name |-> <<>>, blockType |-> "", language |-> "",
     addCppTest |-> FALSE, addPythonTest |-> FALSE, finished |-> FALSE]

Init ==
    /\ fs \in Layouts
    /\ cmd = "none"
    /\ pc = "idle"
    /\ existingBlocks = <<>>
    /\ blockName = <<>>
    /\ pick = NoPick
    /\ candidate = <<>>
    /\ verdict = Valid
    /\ newBlockName = <<>>
    /\ msg = NoMsg
    /\ invoked = <<>>
    /\ shown = <<>>
    /\ error = NoError
    /\ result = NoResult
    /\ state = NoState
    /\ opened = <<>>
    /\ confirm = "none"
    /\ treeRoot = <<>>
    /\ expanded = <<>>
    /\ treeFiles = Done(<<>>)
    /\ scans = [p \in Callers |-> NoScan]

\* a direct call of the exported validator
ValidateCall ==
    /\ pc = "idle"
    /\ \E value \in StrOver(Alphabet, MaxLen) :
        /\ candidate' = value
        /\ existingBlocks' = getAllBlocks(fs)
        /\ verdict' = validateBlockName(existingBlocks', value)
    /\ cmd' = "validateBlockName"
    /\ pc' = "done"
    /\ UNCHANGED <<fs, blockName, pick, newBlockName, msg, invoked, shown, error>>
    /\ UNCHANGED wizardVars
    /\ UNCHANGED treeVars
    /\ UNCHANGED <<confirm, result>>

\* ------------------------------------------------------------------------
\* Name resolution of disableBlock, removeBlock and createPythonBindings
\* ------------------------------------------------------------------------

RECURSIVE MatchingBlocks_Find(_, _)
\* mutant: the scan stops at the first matching block
MatchingBlocks_Find(p, blocks) ==
    IF blocks = <<>> THEN <<>>
    ELSE IF RegExpTest(p, Head(blocks)) THEN <<Head(blocks)>>
    ELSE MatchingBlocks_Find(p, Tail(blocks))

\* mutant: the name is compared as a prefix, as the file correlator does
MatchingBlocks_Prefix(p, blocks) == SelectSeq(blocks, LAMBDA b : StartsWith(b, p))

RECURSIVE MatchingBlocks(_, _)
\* existingBlocks.forEach(block => { if (re.test(block)) push }) and
\* cppBlocks.filter(block => re.test(block))
MatchingBlocks(p, blocks) ==
    IF blocks = <<>> THEN <<>>
    ELSE (IF RegExpTest(p, Head(blocks)) THEN <<Head(blocks)>> ELSE <<>>)
            \o MatchingBlocks(p, Tail(blocks))

\* mutant: the pattern is tried before the inventory is consulted
IsExactMatch_RegexFirst(blocks, name) ==
    /\ InSeq(name, blocks)
    /\ ~(RegExpValid(name) /\ Len(MatchingBlocks(name, blocks)) > 1)

\* existingBlocks.has(blockName), cppBlocks.includes(blockName)
IsExactMatch(blocks, name) == InSeq(name, blocks)

SubCommand(c) ==
    CASE c = "disableBlock" -> "disable"
      [] c = "removeBlock" -> "rm"
      [] c = "renameBlock" -> "rename"
      [] c = "createPythonBindings" -> "bind"
      [] c = "createBlock" -> "add"
      [] c = "makeYamlFromImpl" -> "makeyaml"
      [] c = "convertXmlToYaml" -> "update"
      [] c = "getModuleInfo" -> "info"
      [] OTHER -> "none"

SingleWarning(c) ==
    CASE c = "disableBlock" -> "Are you sure you want to disable \"${blockName}\"?"
      [] c = "removeBlock" -> "Are you sure you want to remove \"${blockName}\"?"
      [] OTHER -> ""

MultipleWarning(c) ==
    CASE c = "disableBlock" -> "Are you sure you want to disable multiple blocks?"
      [] c = "removeBlock" -> "Are you sure you want to remove multiple blocks?"
      [] OTHER -> ""

SingleSuccess(c) ==
    CASE c = "disableBlock" -> "Block \"${blockName}\" was disabled"
      [] c = "removeBlock" -> "Block \"${blockName}\" was removed"
      [] OTHER -> "Python bindings written to \"${blockBindPath}\""

MultipleSuccess(c) ==
    CASE c = "disableBlock" -> "Matching blocks were disabled: "
      [] c = "removeBlock" -> "Matching blocks were removed: "
      [] OTHER -> "Python bindings created for blocks: "

\* the single-block branch; removeBlock lists the files of the block
ResolveSingle(c, name, disk) ==
    LET tree == IF c = "removeBlock" THEN getBlockFilesTree(name, disk) ELSE Done(<<>>) IN
    IF ~tree.ok THEN [ok |-> FALSE, error |-> tree.error, msg |-> NoMsg]
    ELSE [ok |-> TRUE, error |-> NoError,
          msg |-> [warning |-> [kind |-> "single", text |-> SingleWarning(c),
                                block |-> name],
                   head |-> IF c = "removeBlock"
                            THEN "The following files will be deleted:" ELSE "",
                   matching |-> <<>>,
                   files |-> tree.items,
                   success |-> [text |-> SingleSuccess(c), blocks |-> <<name>>]]]

\* the multi-block branch; only removeBlock appends the joined names to the
\* success text, the other two drop them behind a comma operator
ResolveMultiple(c, blocks, name) ==
    IF ~RegExpValid(name) THEN [ok |-> FALSE, error |-> ErrSyntax, msg |-> NoMsg]
    ELSE LET matching == MatchingBlocks(name, blocks) IN
         [ok |-> TRUE, error |-> NoError,
          msg |-> [warning |-> [kind |-> "multiple", text |-> MultipleWarning(c),
                                block |-> <<>>],
                   head |-> CASE c = "disableBlock" ->
                                    "The following blocks will be disabled:"
                              [] c = "removeBlock" ->
                                    "The following blocks will be removed:"
                              [] OTHER -> "",
                   matching |-> matching,
                   files |-> <<>>,
                   success |-> [text |-> MultipleSuccess(c),
                                blocks |-> IF c = "removeBlock" THEN matching
                                           ELSE <<>>]]]

Resolution(c, blocks, name, disk) ==
    IF IsExactMatch(blocks, name)
    THEN ResolveSingle(c, name, disk)
    ELSE ResolveMultiple(c, blocks, name)

\* ------------------------------------------------------------------------
\* The pickers
\* ------------------------------------------------------------------------

PlainItems(labels) == [i \in 1..Len(labels) |-> [label |-> labels[i], regex |-> FALSE]]

RegexItem(label) == [label |-> label, regex |-> TRUE]

\* the picker as quickPick and quickPickWithRegex leave it before show()
OpenPick(labels, value) == [base |-> labels, items |-> PlainItems(labels), value |-> value]

\* the host lists the items whose label contains the trimmed value
Visible(item, value) == Includes(item.label, Trim(value))

\* the string quickPickWithRegex resolves to for the selected item
RegexSelection(item) ==
    IF item.regex THEN <<".", "*">> \o item.label \o <<".", "*">> ELSE item.label

\* the values typed into a picker, the block names and patterns passed in
Patterns == StrOver(PatternAlphabet, MaxPattern)

\* what the active editor's file maps to: a block of the list or nothing
ActiveBlocks(blocks) == {<<>>} \cup {blocks[i] : i \in 1..Len(blocks)}

\* ------------------------------------------------------------------------
\* disableBlock, removeBlock, createPythonBindings
\* ------------------------------------------------------------------------

NoOptions ==
    [blockType |-> "", lang |-> "", copyright |-> <<>>,
     addCppQa |-> FALSE, addPythonQa |-> FALSE]

\* execModtool(sub, ...args) with no flags
Invocation(sub, args) == [sub |-> sub, args |-> args, options |-> NoOptions]

\* the command from the resolved name to its next await: the confirmation
\* of disableBlock and removeBlock, the tool call of createPythonBindings
Resolve(c, blocks, name) ==
    LET r == Resolution(c, blocks, name, fs) IN
    /\ blockName' = name
    /\ IF c = "makeYamlFromImpl"
       THEN /\ pc' = "exec"
            /\ invoked' = Append(invoked, Invocation(SubCommand(c), <<name>>))
            /\ msg' = [NoMsg EXCEPT !.success =
                        IF InSeq(name, blocks)
                        THEN [text |-> "Block definition written to \"grc/${moduleName}_${blockName}.block.yml\"",
                              blocks |-> <<name>>]
                        ELSE [text |-> "Block definition written to \"grc\"",
                              blocks |-> <<>>]]
            /\ error' = error
       ELSE IF ~r.ok
       THEN /\ pc' = "thrown"
            /\ error' = r.error
            /\ UNCHANGED <<msg, invoked>>
       ELSE /\ msg' = r.msg
            /\ error' = error
            /\ IF c = "createPythonBindings"
               THEN /\ pc' = "exec"
                    /\ invoked' = Append(invoked, Invocation(SubCommand(c), <<name>>))
               ELSE /\ pc' = "confirm"
                    /\ UNCHANGED invoked

\* a command with a regex picker, from its call to its first await
StartResolving(c, blocks) ==
    /\ pc = "idle"
    /\ cmd' = c
    /\ existingBlocks' = blocks
    /\ \E arg \in Patterns \cup ActiveBlocks(blocks) :
        IF arg = <<>>
        THEN /\ \E value \in ActiveBlocks(blocks) : pick' = OpenPick(blocks, value)
             /\ pc' = "pick"
             /\ UNCHANGED <<blockName, msg, invoked, error>>
        ELSE /\ Resolve(c, blocks, arg)
             /\ UNCHANGED pick
    /\ UNCHANGED <<fs, candidate, verdict, newBlockName, shown>>
    /\ UNCHANGED wizardVars
    /\ UNCHANGED treeVars
    /\ UNCHANGED <<confirm, result>>

disableBlock == StartResolving("disableBlock", getAllBlocks(fs))

removeBlock == StartResolving("removeBlock", getAllBlocks(fs))

createPythonBindings ==
    IF getCppBlocks(fs) = <<>>
    THEN /\ pc = "idle"
         /\ cmd' = "createPythonBindings"
         /\ existingBlocks' = <<>>
         /\ shown' = Append(shown, [text |-> "No C++ headers found", blocks |-> <<>>])
         /\ pc' = "done"
         /\ UNCHANGED <<fs, blockName, pick, candidate, verdict, newBlockName, msg,
                        invoked, error>>
         /\ UNCHANGED wizardVars
         /\ UNCHANGED treeVars
         /\ UNCHANGED <<confirm, result>>
    ELSE StartResolving("createPythonBindings", getCppBlocks(fs))

\* mutant: the command goes on with an empty inventory
makeYamlFromImpl_NoEarlyReturn == StartResolving("makeYamlFromImpl", getCppImplFiles(fs))

makeYamlFromImpl ==
    IF getCppImplFiles(fs) = <<>>
    THEN /\ pc = "idle"
         /\ cmd' = "makeYamlFromImpl"
         /\ existingBlocks' = <<>>
         /\ shown' = Append(shown, [text |-> "No C++ blocks found", blocks |-> <<>>])
         /\ pc' = "done"
         /\ UNCHANGED <<fs, blockName, pick, candidate, verdict, newBlockName, msg,
                        invoked, error>>
         /\ UNCHANGED wizardVars
         /\ UNCHANGED treeVars
         /\ UNCHANGED <<confirm, result>>
    ELSE StartResolving("makeYamlFromImpl", getCppImplFiles(fs))

\* the commands that resolve a name or a pattern against the inventory
RegexCommands == {"disableBlock", "removeBlock", "createPythonBindings"}

\* quickPickWithRegex: blockPick.onDidChangeValue
quickPickWithRegex_onDidChangeValue ==
    /\ pc = "pick"
    /\ cmd \in RegexCommands \cup {"makeYamlFromImpl"}
    /\ \E value \in Patterns \ {pick.value} :
        pick' = [pick EXCEPT
                    !.value = value,
                    !.items = IF ~InSeq(value, pick.base)
                              THEN <<RegexItem(value)>> \o PlainItems(pick.base)
                              ELSE @]
    /\ UNCHANGED <<fs, cmd, pc, existingBlocks, blockName, candidate, verdict,
                   newBlockName, msg, invoked, shown, error>>
    /\ UNCHANGED wizardVars
    /\ UNCHANGED treeVars
    /\ UNCHANGED <<confirm, result>>

\* quickPickWithRegex: blockPick.onDidAccept with a selected item, and the
\* command up to its next await
quickPickWithRegex_onDidAccept ==
    /\ pc = "pick"
    /\ cmd \in RegexCommands \cup {"makeYamlFromImpl"}
    /\ \E i \in 1..Len(pick.items) :
        /\ Visible(pick.items[i], pick.value)
        /\ Resolve(cmd, existingBlocks, RegexSelection(pick.items[i]))
    /\ pick' = NoPick
    /\ UNCHANGED <<fs, cmd, existingBlocks, candidate, verdict, newBlockName, shown>>
    /\ UNCHANGED wizardVars
    /\ UNCHANGED treeVars
    /\ UNCHANGED <<confirm, result>>

\* mutant: hiding the picker resolves its promise with no name and the
\* command goes on without one
onDidHide_GoesOn ==
    /\ pc = "pick"
    /\ pc' = "exec"
    /\ pick' = NoPick
    /\ invoked' = Append(invoked, Invocation(SubCommand(cmd), <<blockName>>))
    /\ UNCHANGED <<fs, cmd, existingBlocks, blockName, candidate, verdict,
                   newBlockName, msg, shown, error>>
    /\ UNCHANGED wizardVars
    /\ UNCHANGED treeVars
    /\ UNCHANGED <<confirm, result>>

\* blockPick.onDidHide without an accepted item: the picker is disposed and
\* the promise of the picker is never resolved
onDidHide ==
    /\ pc = "pick"
    /\ pc' = "pending"
    /\ pick' = NoPick
    /\ UNCHANGED <<fs, cmd, existingBlocks, blockName, candidate, verdict,
                   newBlockName, msg, invoked, shown, error>>
    /\ UNCHANGED wizardVars
    /\ UNCHANGED treeVars
    /\ UNCHANGED <<confirm, result>>

\* ------------------------------------------------------------------------
\* renameBlock
\* ------------------------------------------------------------------------

\* the values typed into the input box of a command
NameInputs ==
    { <<>>, <<" ">>, <<"a", "b">>, <<" ", "a", "b", " ">>, <<"a", ",">>,
      <<"a", ".", "b">>, <<"a", "b", "a">>, <<"a", "b", "a", " ">>,
      <<"b", "_", "1">> }

\* mutant: the validator is built from an empty inventory
NameValidator_NoInventory(blocks, value) == validateBlockName(<<>>, value)

\* validateInput: validateBlockName(existingBlocks)
NameValidator(blocks, value) == validateBlockName(blocks, value)

\* the input box resolves to its value unless validateInput reports an error
AcceptsInput(v) == v.severity # "Error"

\* the input box is disposed
CloseInputBox ==
    /\ candidate' = <<>>
    /\ verdict' = Valid

\* the block names renameBlock is called with: none, a block, or another name
RenameArgs(blocks) == ActiveBlocks(blocks) \cup {<<"b">>}

\* window.showInputBox of renameBlock opens on the empty value
OpenInputBox(blocks, name) ==
    /\ blockName' = name
    /\ candidate' = <<>>
    /\ verdict' = NameValidator(blocks, <<>>)
    /\ pc' = "input"

renameBlock ==
    /\ pc = "idle"
    /\ cmd' = "renameBlock"
    /\ existingBlocks' = getAllBlocks(fs)
    /\ \E arg \in RenameArgs(existingBlocks') :
        IF arg = <<>>
        THEN /\ \E value \in ActiveBlocks(existingBlocks') :
                    pick' = OpenPick(existingBlocks', value)
             /\ pc' = "pick"
             /\ UNCHANGED <<blockName, candidate, verdict>>
        ELSE /\ OpenInputBox(existingBlocks', arg)
             /\ UNCHANGED pick
    /\ UNCHANGED <<fs, newBlockName, msg, invoked, shown, error>>
    /\ UNCHANGED wizardVars
    /\ UNCHANGED treeVars
    /\ UNCHANGED <<confirm, result>>

\* quickPick has no onDidChangeValue handler: typing only filters the list
quickPick_type ==
    /\ pc = "pick"
    /\ cmd \in {"renameBlock", "convertXmlToYaml"}
    /\ \E value \in Patterns \ {pick.value} : pick' = [pick EXCEPT !.value = value]
    /\ UNCHANGED <<fs, cmd, pc, existingBlocks, blockName, candidate, verdict,
                   newBlockName, msg, invoked, shown, error>>
    /\ UNCHANGED wizardVars
    /\ UNCHANGED treeVars
    /\ UNCHANGED <<confirm, result>>

\* convertXmlToYaml from the block name it has, or has not, to its next
\* await: the tool call, or the question whether to update all definitions
Update(name) ==
    /\ blockName' = name
    /\ IF name # <<>>
       THEN /\ invoked' = Append(invoked, Invocation("update", <<name>>))
            /\ msg' = [NoMsg EXCEPT !.success =
                        [text |-> "Block definition written to \"grc/${moduleName}_${blockName}.block.yml\"",
                         blocks |-> <<name>>]]
            /\ pc' = "exec"
       ELSE /\ msg' = [NoMsg EXCEPT
                        !.warning = [kind |-> "all",
                                     text |-> "No block name provided! Update all definitions?",
                                     block |-> <<>>],
                        !.success = [text |-> "Block definitions written to \"grc/\"",
                                     blocks |-> <<>>]]
            /\ pc' = "confirm"
            /\ UNCHANGED invoked

convertXmlToYaml ==
    /\ pc = "idle"
    /\ cmd' = "convertXmlToYaml"
    /\ existingBlocks' = getXmlBlocks(fs)
    /\ IF existingBlocks' = <<>>
       THEN /\ shown' = Append(shown, [text |-> "No XML found, no need to update!",
                                       blocks |-> <<>>])
            /\ pc' = "done"
            /\ UNCHANGED <<blockName, pick, msg, invoked>>
       ELSE /\ \E arg \in Patterns \cup ActiveBlocks(existingBlocks') :
                IF arg = <<>>
                THEN /\ \E value \in ActiveBlocks(existingBlocks') :
                            pick' = OpenPick(existingBlocks', value)
                     /\ pc' = "pick"
                     /\ UNCHANGED <<blockName, msg, invoked>>
                ELSE /\ Update(arg)
                     /\ UNCHANGED pick
            /\ UNCHANGED shown
    /\ UNCHANGED <<fs, candidate, verdict, newBlockName, error>>
    /\ UNCHANGED wizardVars
    /\ UNCHANGED treeVars
    /\ UNCHANGED <<confirm, result>>

\* quickPick: the default onDidAccept, then renameBlock up to its input box
\* and convertXmlToYaml up to its tool call
quickPick_onDidAccept ==
    /\ pc = "pick"
    /\ cmd \in {"renameBlock", "convertXmlToYaml"}
    /\ \E i \in 1..Len(pick.items) :
        /\ Visible(pick.items[i], pick.value)
        /\ IF cmd = "renameBlock"
           THEN /\ OpenInputBox(existingBlocks, pick.items[i].label)
                /\ UNCHANGED <<msg, invoked>>
           ELSE /\ Update(pick.items[i].label)
                /\ UNCHANGED <<candidate, verdict>>
    /\ pick' = NoPick
    /\ UNCHANGED <<fs, cmd, existingBlocks, newBlockName, shown, error>>
    /\ UNCHANGED wizardVars
    /\ UNCHANGED treeVars
    /\ UNCHANGED <<confirm, result>>

\* the input box of renameBlock validates each value typed
showInputBox_onDidChangeValue ==
    /\ pc = "input"
    /\ cmd = "renameBlock"
    /\ \E value \in NameInputs \ {candidate} :
        /\ candidate' = value
        /\ verdict' = NameValidator(existingBlocks, value)
    /\ UNCHANGED <<fs, cmd, pc, existingBlocks, blockName, pick, newBlockName, msg,
                   invoked, shown, error>>
    /\ UNCHANGED wizardVars
    /\ UNCHANGED treeVars
    /\ UNCHANGED <<confirm, result>>

RenameMsg(files) ==
    [warning |-> [kind |-> "single",
                  text |-> "Are you sure you want to rename \"${blockName}\" to \"${newBlockName}\"?",
                  block |-> blockName],
     head |-> "The following files will be renamed:",
     matching |-> <<>>,
     files |-> files,
     success |-> [text |-> "Block \"${blockName}\" was renamed to \"${newBlockName}\"",
                  blocks |-> <<blockName>>]]

\* the input box is accepted: renameBlock lists the files of the block and
\* asks for confirmation
showInputBox_onDidAccept ==
    /\ pc = "input"
    /\ AcceptsInput(verdict)
    /\ newBlockName' = candidate
    /\ LET tree == getBlockFilesTree(blockName, fs) IN
        IF candidate = <<>>
        THEN pc' = "done" /\ UNCHANGED <<msg, error>>
        ELSE IF ~tree.ok
        THEN pc' = "thrown" /\ error' = tree.error /\ UNCHANGED msg
        ELSE pc' = "confirm" /\ msg' = RenameMsg(tree.items) /\ UNCHANGED error
    /\ CloseInputBox
    /\ UNCHANGED <<fs, cmd, existingBlocks, blockName, pick, invoked, shown>>
    /\ UNCHANGED wizardVars
    /\ UNCHANGED treeVars
    /\ UNCHANGED <<confirm, result>>

\* the input box is dismissed: showInputBox resolves to undefined
showInputBox_onDidHide ==
    /\ pc = "input"
    /\ pc' = "done"
    /\ CloseInputBox
    /\ UNCHANGED <<fs, cmd, existingBlocks, blockName, pick, newBlockName, msg,
                   invoked, shown, error>>
    /\ UNCHANGED wizardVars
    /\ UNCHANGED treeVars
    /\ UNCHANGED <<confirm, result>>

\* ------------------------------------------------------------------------
\* createBlock: the wizard run by MultiStepInput
\* ------------------------------------------------------------------------

BlockTypes ==
    {"general", "sync", "decimator", "interpolator", "source", "sink",
     "tagged_stream", "hier", "noblock"}

Languages == {"python", "cpp"}

\* what `git config user.name` printed, nothing when it failed; also the
\* values typed as the copyright holder
Authors == {<<>>, <<"A">>}

\* a step function is called: its prompt shows step n of state.totalSteps
Prompt(st, name, n) ==
    [st EXCEPT !.prompt = name, !.step = n, !.shownTotal = st.totalSteps]

\* the value and the verdict of the input box inputName opens
NamePrompt(st) ==
    /\ candidate' = st.name
    /\ verdict' = NameValidator(existingBlocks, st.name)

createBlock ==
    /\ pc = "idle"
    /\ cmd' = "createBlock"
    /\ existingBlocks' = getAllBlocks(fs)
    /\ \E author \in Authors :
        state' = Prompt([NoState EXCEPT !.copyright = author], "inputAuthor", 1)
    /\ pc' = "wizard"
    /\ UNCHANGED <<fs, blockName, pick, candidate, verdict, newBlockName, msg,
                   invoked, shown, error, opened>>
    /\ UNCHANGED treeVars
    /\ UNCHANGED <<confirm, result>>

inputAuthor ==
    /\ pc = "wizard"
    /\ state.prompt = "inputAuthor"
    /\ \E author \in Authors :
        LET st == Prompt([state EXCEPT !.copyright = author], "inputName", 2) IN
        /\ state' = st
        /\ NamePrompt(st)
    /\ UNCHANGED <<fs, cmd, pc, existingBlocks, blockName, pick, newBlockName, msg,
                   invoked, shown, error, opened>>
    /\ UNCHANGED treeVars
    /\ UNCHANGED <<confirm, result>>

\* the input box of inputName validates each value typed
inputName_onDidChangeValue ==
    /\ pc = "wizard"
    /\ state.prompt = "inputName"
    /\ \E value \in NameInputs \ {candidate} :
        /\ candidate' = value
        /\ verdict' = NameValidator(existingBlocks, value)
    /\ UNCHANGED <<fs, cmd, pc, existingBlocks, blockName, pick, newBlockName, msg,
                   invoked, shown, error, state, opened>>
    /\ UNCHANGED treeVars
    /\ UNCHANGED <<confirm, result>>

inputName ==
    /\ pc = "wizard"
    /\ state.prompt = "inputName"
    /\ AcceptsInput(verdict)
    /\ state' = Prompt([state EXCEPT !.name = candidate], "pickBlockType", 3)
    /\ CloseInputBox
    /\ UNCHANGED <<fs, cmd, pc, existingBlocks, blockName, pick, newBlockName, msg,
                   invoked, shown, error, opened>>
    /\ UNCHANGED treeVars
    /\ UNCHANGED <<confirm, result>>

\* mutant: the picked type is not stored in the state
pickBlockType_NoStore ==
    /\ pc = "wizard"
    /\ state.prompt = "pickBlockType"
    /\ state' = Prompt(state, "pickLanguage", 4)
    /\ UNCHANGED <<fs, cmd, pc, existingBlocks, blockName, pick, candidate, verdict,
                   newBlockName, msg, invoked, shown, error, opened>>
    /\ UNCHANGED treeVars
    /\ UNCHANGED <<confirm, result>>

pickBlockType ==
    /\ pc = "wizard"
    /\ state.prompt = "pickBlockType"
    /\ \E label \in BlockTypes :
        state' = Prompt([state EXCEPT
                            !.blockType = label,
                            !.totalSteps = IF label = "noblock" THEN 4 ELSE 5],
                        "pickLanguage", 4)
    /\ UNCHANGED <<fs, cmd, pc, existingBlocks, blockName, pick, candidate, verdict,
                   newBlockName, msg, invoked, shown, error, opened>>
    /\ UNCHANGED treeVars
    /\ UNCHANGED <<confirm, result>>

\* let args = [...]; execModtool('add', ...args) once the wizard finished
AddInvocation(st) ==
    [sub |-> "add",
     args |-> <<st.name>>,
     options |-> [blockType |-> st.blockType, lang |-> st.language,
                  copyright |-> st.copyright,
                  addCppQa |-> st.addCppTest, addPythonQa |-> st.addPythonTest]]

\* the last step returns with state.finished set: MultiStepInput.run
\* resolves and createBlock calls the tool
Finished(st) ==
    /\ state' = [st EXCEPT !.finished = TRUE, !.prompt = "none"]
    /\ invoked' = Append(invoked, AddInvocation(st))
    /\ pc' = "exec"

\* mutant: the total of the steps is left as pickBlockType set it
pickLanguage_KeepsTotal ==
    /\ pc = "wizard"
    /\ state.prompt = "pickLanguage"
    /\ \E lang \in Languages :
        LET st == [state EXCEPT !.language = lang] IN
        IF st.blockType = "noblock" /\ lang = "python"
        THEN Finished(st)
        ELSE /\ state' = Prompt(st, "pickTests", 5)
             /\ UNCHANGED <<pc, invoked>>
    /\ UNCHANGED <<fs, cmd, existingBlocks, blockName, pick, candidate, verdict,
                   newBlockName, msg, shown, error, opened>>
    /\ UNCHANGED treeVars
    /\ UNCHANGED <<confirm, result>>

pickLanguage ==
    /\ pc = "wizard"
    /\ state.prompt = "pickLanguage"
    /\ \E lang \in Languages :
        LET st == [state EXCEPT !.language = lang] IN
        IF st.blockType = "noblock" /\ lang = "python"
        THEN Finished(st)
        ELSE /\ state' = Prompt([st EXCEPT !.totalSteps = 5], "pickTests", 5)
             /\ UNCHANGED <<pc, invoked>>
    /\ UNCHANGED <<fs, cmd, existingBlocks, blockName, pick, candidate, verdict,
                   newBlockName, msg, shown, error, opened>>
    /\ UNCHANGED treeVars
    /\ UNCHANGED <<confirm, result>>

\* mutant: both test languages are offered whatever was chosen
testLanguages_Both(st) == {"python", "cpp"}

\* the items pickTests offers
testLanguages(st) ==
    (IF st.blockType # "noblock" THEN {"python"} ELSE {})
        \cup (IF st.language = "cpp" THEN {"cpp"} ELSE {})

pickTests ==
    /\ pc = "wizard"
    /\ state.prompt = "pickTests"
    /\ \E picks \in SUBSET testLanguages(state) :
        Finished([state EXCEPT
                     !.addCppTest = @ \/ "cpp" \in picks,
                     !.addPythonTest = @ \/ "python" \in picks])
    /\ UNCHANGED <<fs, cmd, existingBlocks, blockName, pick, candidate, verdict,
                   newBlockName, msg, shown, error, opened>>
    /\ UNCHANGED treeVars
    /\ UNCHANGED <<confirm, result>>

PreviousPrompt(prompt) ==
    CASE prompt = "inputName" -> "inputAuthor"
      [] prompt = "pickBlockType" -> "inputName"
      [] prompt = "pickLanguage" -> "pickBlockType"
      [] prompt = "pickTests" -> "pickLanguage"

\* the back button: MultiStepInput calls the previous step function again
goBack ==
    /\ pc = "wizard"
    /\ state.prompt \in {"inputName", "pickBlockType", "pickLanguage", "pickTests"}
    /\ state' = Prompt(state, PreviousPrompt(state.prompt), state.step - 1)
    /\ IF state.prompt = "pickBlockType" THEN NamePrompt(state) ELSE CloseInputBox
    /\ UNCHANGED <<fs, cmd, pc, existingBlocks, blockName, pick, newBlockName, msg,
                   invoked, shown, error, opened>>
    /\ UNCHANGED treeVars
    /\ UNCHANGED <<confirm, result>>

\* the wizard is dismissed: MultiStepInput.run resolves with the state
\* unfinished and createBlock returns
cancelWizard ==
    /\ pc = "wizard"
    /\ state' = [state EXCEPT !.prompt = "none"]
    /\ pc' = "done"
    /\ CloseInputBox
    /\ UNCHANGED <<fs, cmd, existingBlocks, blockName, pick, newBlockName, msg,
                   invoked, shown, error, opened>>
    /\ UNCHANGED treeVars
    /\ UNCHANGED <<confirm, result>>

\* ------------------------------------------------------------------------
\* The confirmation and the external tool
\* ------------------------------------------------------------------------

\* mutant: the tool runs whatever the answer
Confirmed_Always(answer) == TRUE

\* confirm === 'Yes'
Confirmed(answer) == answer = "Yes"

ToolArgs ==
    CASE cmd = "renameBlock" -> <<blockName, newBlockName>>
      [] cmd = "convertXmlToYaml" -> <<<<"--complete">>>>
      [] OTHER -> <<blockName>>

\* the modal confirmation is answered or dismissed
showWarningMessage ==
    /\ pc = "confirm"
    /\ \E answer \in {"Yes", "undefined"}
                    \cup (IF cmd = "convertXmlToYaml" THEN {"No"} ELSE {}) :
        /\ confirm' = answer
        /\ IF Confirmed(answer)
           THEN /\ pc' = "exec"
                /\ invoked' = Append(invoked, Invocation(SubCommand(cmd), ToolArgs))
           ELSE /\ pc' = "done"
                /\ UNCHANGED invoked
    /\ UNCHANGED <<fs, cmd, existingBlocks, blockName, pick, candidate, verdict,
                   newBlockName, msg, shown, error, result>>
    /\ UNCHANGED wizardVars
    /\ UNCHANGED treeVars

\* resolve(cwd, 'python', moduleName, name + '.py') or the public header
blockPath ==
    IF state.language = "python"
    THEN [dir |-> "python", name |-> state.name \o ExtPy]
    ELSE [dir |-> "include", name |-> state.name \o ExtH]

getModuleInfo ==
    /\ pc = "idle"
    /\ cmd' = "getModuleInfo"
    /\ \E json \in BOOLEAN :
        /\ invoked' = Append(invoked, Invocation("info", IF json
                                                         THEN <<<<"--python-readable">>>>
                                                         ELSE <<>>))
        /\ msg' = [NoMsg EXCEPT !.success = [text |-> "GNURadio Module Info",
                                             blocks |-> <<>>]]
    /\ pc' = "exec"
    /\ UNCHANGED <<fs, existingBlocks, blockName, pick, candidate, verdict,
                   newBlockName, shown, error>>
    /\ UNCHANGED wizardVars
    /\ UNCHANGED treeVars
    /\ UNCHANGED <<confirm, result>>

\* the external tool returns its output or a PythonShellError, and the
\* command runs to its end
execModtool ==
    /\ pc = "exec"
    /\ \E r \in Outputs \cup Failures :
        /\ result' = r
        /\ IF r.kind = "PythonShellError"
           THEN /\ pc' = "thrown"
                /\ error' = [name |-> "ModtoolError", message |-> ErrorText(cmd, r)]
                /\ UNCHANGED <<shown, opened>>
           ELSE IF cmd = "getModuleInfo" /\ invoked[Len(invoked)].args # <<>>
           THEN /\ IF r.message = "{'modname': 'm'}"
                   THEN pc' = "done" /\ UNCHANGED error   \* JSON.parse returns
                   ELSE pc' = "thrown" /\ error' = ErrSyntax
                /\ UNCHANGED <<shown, opened>>
           ELSE /\ pc' = "done"
                /\ IF cmd = "createBlock"
                   THEN opened' = Append(opened, blockPath) /\ UNCHANGED shown
                   ELSE shown' = Append(shown, msg.success) /\ UNCHANGED opened
                /\ UNCHANGED error
    /\ UNCHANGED <<fs, cmd, existingBlocks, blockName, pick, candidate, verdict,
                   newBlockName, msg, invoked, state>>
    /\ UNCHANGED treeVars
    /\ UNCHANGED confirm

\* ------------------------------------------------------------------------
\* The tree view
\* ------------------------------------------------------------------------

\* mutant: the legacy definition is left out of the value
contextValue_CppOnly(name, cppBlocks, xmlBlocks) ==
    IF InSeq(name, cppBlocks) THEN "block.cpp" ELSE "block"

\* item.contextValue of a root item
contextValue(name, cppBlocks, xmlBlocks) ==
    (IF InSeq(name, cppBlocks) THEN "block.cpp" ELSE "block")
        \o (IF InSeq(name, xmlBlocks) THEN ".xml" ELSE "")

\* getChildren(): one collapsed item per block of the inventory
getChildren_root ==
    /\ pc = "idle"
    /\ cmd' = "getChildren"
    /\ pc' = "tree"
    /\ LET all == getAllBlocks(fs) IN
        treeRoot' = [i \in 1..Len(all) |->
                        [label |-> all[i],
                         contextValue |->
                            contextValue(all[i], getCppBlocks(fs), getXmlBlocks(fs))]]
    /\ UNCHANGED <<fs, existingBlocks, blockName, pick, candidate, verdict,
                   newBlockName, msg, invoked, shown, error, state, opened, confirm,
                   result, expanded, treeFiles, scans>>

\* getChildren(element): a root item is expanded
getChildren_element ==
    /\ pc = "tree"
    /\ \E i \in 1..Len(treeRoot) :
        /\ expanded' = treeRoot[i].label
        /\ treeFiles' = getBlockFilesTree(treeRoot[i].label, fs)
    /\ UNCHANGED <<fs, cmd, pc, existingBlocks, blockName, pick, candidate, verdict,
                   newBlockName, msg, invoked, shown, error, state, opened, confirm,
                   result, treeRoot, scans>>

Next ==
    \/ ValidateCall
    \/ disableBlock
    \/ removeBlock
    \/ createPythonBindings
    \/ makeYamlFromImpl
    \/ convertXmlToYaml
    \/ getModuleInfo
    \/ quickPickWithRegex_onDidChangeValue
    \/ quickPickWithRegex_onDidAccept
    \/ onDidHide
    \/ renameBlock
    \/ quickPick_type
    \/ quickPick_onDidAccept
    \/ showInputBox_onDidChangeValue
    \/ showInputBox_onDidAccept
    \/ showInputBox_onDidHide
    \/ createBlock
    \/ inputAuthor
    \/ inputName_onDidChangeValue
    \/ inputName
    \/ pickBlockType
    \/ pickLanguage
    \/ pickTests
    \/ goBack
    \/ cancelWizard
    \/ showWarningMessage
    \/ execModtool
    \/ getChildren_root
    \/ getChildren_element

Spec == Init /\ [][Next]_vars

\* ------------------------------------------------------------------------
\* Overlapping calls of getBlockFilesTree
\* ------------------------------------------------------------------------

\* everything but the calls in flight
commandVars ==
    <<fs, cmd, pc, existingBlocks, blockName, pick, candidate, verdict,
      newBlockName, msg, invoked, shown, error, state, opened, confirm, result,
      treeRoot, expanded, treeFiles>>

\* the call rejects with e
Rejected(s, e) == [s EXCEPT !.pc = "rejected", !.settled = Fail(e)]

\* mutant: the arrays are kept at module level and shared by the calls
Gathered_Shared(all, p) ==
    [grcFiles |-> all[1].grcFiles \o all[2].grcFiles,
     cppFiles |-> all[1].cppFiles \o all[2].cppFiles,
     pyFiles |-> all[1].pyFiles \o all[2].pyFiles,
     pyTestFiles |-> all[1].pyTestFiles \o all[2].pyTestFiles]

\* const grcFiles, cppFiles, pyFiles, pyTestFiles: the arrays of the call
Gathered(all, p) ==
    [grcFiles |-> all[p].grcFiles,
     cppFiles |-> all[p].cppFiles,
     pyFiles |-> all[p].pyFiles,
     pyTestFiles |-> all[p].pyTestFiles]

\* getBlockFilesTree is called and awaits readdir('grc')
scan_call(p) ==
    /\ scans[p].pc = "idle"
    /\ \E block \in {Bab, Baba} :
        LET inFlight == {q \in Callers : scans[q].pc \in {"grc", "include", "python", "lib"}}
            busy == inFlight \ {p} # {}
        IN
        scans' = [q \in Callers |->
                    IF q = p
                    THEN [NoScan EXCEPT !.pc = "grc", !.block = block,
                                        !.overlapped = busy]
                    ELSE [scans[q] EXCEPT !.overlapped = @ \/ q \in inFlight]]
    /\ UNCHANGED commandVars

\* readdir('grc') settles: grcFiles, then await readdir('include', ...)
scan_grc(p) ==
    /\ scans[p].pc = "grc"
    /\ LET sel == SelectSeq(fs.grc.entries,
                            LAMBDA v : DefinitionOfBlock(scans[p].block, v.name))
       IN  scans' = [scans EXCEPT ![p] =
                IF ~fs.grc.exists THEN Rejected(@, ErrNotFound)
                ELSE IF HasNonFile(sel) THEN Rejected(@, ErrNotAFile)
                ELSE [@ EXCEPT !.pc = "include",
                               !.grcFiles = mapBlockToTreeItem("Block definition",
                                                               "grc", sel)]]
    /\ UNCHANGED commandVars

\* readdir('include', 'gnuradio', moduleName) settles: cppFiles, then await
\* readdir('python', moduleName)
scan_include(p) ==
    /\ scans[p].pc = "include"
    /\ LET sel == SelectSeq(fs.include.entries,
                            LAMBDA v : HeaderOfBlock(scans[p].block, v.name))
       IN  scans' = [scans EXCEPT ![p] =
                IF ~fs.include.exists THEN Rejected(@, ErrNotFound)
                ELSE IF HasNonFile(sel) THEN Rejected(@, ErrNotAFile)
                ELSE [@ EXCEPT !.pc = "python",
                               !.cppFiles = mapBlockToTreeItem("Public header",
                                                               "include", sel)]]
    /\ UNCHANGED commandVars

\* readdir('python', moduleName) settles: pyFiles and pyTestFiles, then
\* await readdir('lib')
scan_python(p) ==
    /\ scans[p].pc = "python"
    /\ LET sel == SelectSeq(fs.python.entries,
                            LAMBDA v : PyOfBlock(scans[p].block, v.name))
           tests == SelectSeq(fs.python.entries,
                              LAMBDA v : PyTestOfBlock(scans[p].block, v.name))
       IN  scans' = [scans EXCEPT ![p] =
                IF ~fs.python.exists THEN Rejected(@, ErrNotFound)
                ELSE IF HasNonFile(sel) \/ HasNonFile(tests) THEN Rejected(@, ErrNotAFile)
                ELSE [@ EXCEPT !.pc = "lib",
                               !.pyFiles = mapBlockToTreeItem("Implementation",
                                                              "python", sel),
                               !.pyTestFiles = mapBlockToTreeItem("Python Tests",
                                                                  "python", tests)]]
    /\ UNCHANGED commandVars

\* readdir('lib') settles: cppImplFiles and cppTestFiles, and the call
\* returns the arrays it gathered
scan_lib(p) ==
    /\ scans[p].pc = "lib"
    /\ LET block == scans[p].block
           sel == SelectSeq(fs.lib.entries, LAMBDA v : ImplOfBlock(block, v.name))
           anyTest == \E i \in 1..Len(fs.lib.entries) :
                            filterBlockTests(fs.lib.entries[i].name)
           tests == SelectSeq(fs.lib.entries, LAMBDA v : CppTestOfBlock(block, v.name))
           cppImplFiles ==
                [i \in 1..Len(sel) |->
                    [label |-> ImplLabel(sel[i].name), dir |-> "lib",
                     name |-> sel[i].name]]
           own == Gathered(scans, p)
       IN  scans' = [scans EXCEPT ![p] =
                IF ~fs.lib.exists THEN Rejected(@, ErrNotFound)
                ELSE IF HasNonFile(sel) THEN Rejected(@, ErrNotAFile)
                ELSE IF anyTest /\ ~RegExpValid(block) THEN Rejected(@, ErrSyntax)
                ELSE IF HasNonFile(tests) THEN Rejected(@, ErrNotAFile)
                ELSE [@ EXCEPT
                        !.pc = "returned",
                        !.settled =
                            Done(Presentation(own.grcFiles, own.cppFiles, own.pyFiles,
                                              own.pyTestFiles, cppImplFiles,
                                              mapBlockToTreeItem("C++ Tests", "lib",
                                                                 tests)))]]
    /\ UNCHANGED commandVars

\* the caller takes the result and may call again
scan_settled(p) ==
    /\ scans[p].pc \in {"returned", "rejected"}
    /\ scans' = [scans EXCEPT ![p] = NoScan]
    /\ UNCHANGED commandVars

NextScan ==
    \/ \E p \in Callers : scan_call(p)
    \/ \E p \in Callers : scan_grc(p)
    \/ \E p \in Callers : scan_include(p)
    \/ \E p \in Callers : scan_python(p)
    \/ \E p \in Callers : scan_lib(p)
    \/ \E p \in Callers : scan_settled(p)

SpecScan == Init /\ [][NextScan]_vars

\* ------------------------------------------------------------------------
\* Properties
\* ------------------------------------------------------------------------

ConfirmedCommands == {"disableBlock", "removeBlock", "renameBlock"}

\* C1: in disableBlock, removeBlock and renameBlock the tool is called at
\* most once, with the sub-command of the command, and only after the modal
\* confirmation was answered 'Yes'; while the confirmation is unanswered,
\* dismissed or answered otherwise the tool is not called and no success
\* message is shown.
C1_ToolOnlyAfterYes ==
    cmd \in ConfirmedCommands =>
        /\ Len(invoked) <= 1
        /\ \A i \in 1..Len(invoked) : invoked[i].sub = SubCommand(cmd)
        /\ invoked # <<>> => confirm = "Yes"
        /\ confirm # "Yes" => (invoked = <<>> /\ shown = <<>>)

C1_Witness ==
    /\ cmd = "removeBlock"
    /\ pc = "done"
    /\ confirm = "Yes"
    /\ Len(invoked) = 1
    /\ invoked[1].sub = "rm"
    /\ Len(shown) = 1

\* C2: exact-match precedence: whenever disableBlock, removeBlock or
\* createPythonBindings resolved a string equal to a block of the inventory,
\* the texts prepared are those of the single-block branch and name exactly
\* that block, also when the string read as a pattern matches other blocks.
C2_ExactMatchPrecedence ==
    (cmd \in RegexCommands /\ msg.warning.kind # "none"
        /\ \E i \in 1..Len(existingBlocks) : existingBlocks[i] = blockName) =>
        /\ msg.warning.kind = "single"
        /\ msg.warning.block = blockName
        /\ msg.success.blocks = <<blockName>>
        /\ msg.matching = <<>>

C2_Witness ==
    /\ cmd \in {"disableBlock", "createPythonBindings"}
    /\ blockName = Bab
    /\ \E i \in 1..Len(existingBlocks) : existingBlocks[i] = Bab
    /\ \E i \in 1..Len(existingBlocks) :
        existingBlocks[i] # Bab /\ RegExpTest(Bab, existingBlocks[i])
    /\ msg.warning.kind = "single"
    /\ msg.success.blocks = <<Bab>>

\* the records listed for the block of removeBlock and renameBlock, and for
\* the expanded item of the tree view
ListedFor(block, files) ==
    \A i \in 1..Len(files) : BlockIdOf(files[i].dir, files[i].name) = block

\* C3: every record getBlockFilesTree returns for a block is a file whose
\* block identifier equals that block.
C3_OnlyFilesOfTheBlock ==
    /\ (cmd = "getChildren" /\ expanded # <<>>) => ListedFor(expanded, treeFiles.items)
    /\ cmd \in {"removeBlock", "renameBlock"} => ListedFor(blockName, msg.files)

\* C4: for every block the tree root lists, getBlockFilesTree returns a
\* non-empty list of files.
C4_ListedBlocksHaveFiles ==
    (cmd = "getChildren" /\ expanded # <<>>) =>
        (treeFiles.ok /\ treeFiles.items # <<>>)

\* the states in which verdict is what the validator returned for candidate
Validated ==
    \/ cmd = "validateBlockName" /\ pc = "done"
    \/ cmd = "renameBlock" /\ pc = "input"
    \/ cmd = "createBlock" /\ pc = "wizard" /\ state.prompt = "inputName"

\* the candidate without the white space around it
RECURSIVE Strip(_)
Strip(s) ==
    IF s = <<>> THEN s
    ELSE IF s[1] \in WhiteSpace THEN Strip(Tail(s))
    ELSE IF s[Len(s)] \in WhiteSpace THEN Strip(SubSeq(s, 1, Len(s) - 1))
    ELSE s

WellFormed(s) ==
    \A i \in 1..Len(s) : s[i] \in Letters \cup Digits \cup {"_"}

\* C5: a candidate whose trimmed value is a block of the inventory gets an
\* error verdict, whatever its length.
C5_CollisionIsError ==
    (Validated /\ \E i \in 1..Len(existingBlocks) : existingBlocks[i] = Strip(candidate))
        => verdict.severity = "Error"

\* C6: a candidate whose trimmed value has a character other than a letter, a
\* digit or an underscore gets an error verdict.
C6_IllFormedIsError ==
    (Validated /\ ~WellFormed(Strip(candidate))) => verdict.severity = "Error"

\* C7: a candidate that is empty or all white space gets the error 'Name
\* cannot be empty', before any other check.
C7_EmptyIsError ==
    (Validated /\ \A i \in 1..Len(candidate) : candidate[i] \in WhiteSpace)
        => verdict = ErrEmpty

C7_Witness ==
    /\ cmd = "validateBlockName"
    /\ pc = "done"
    /\ candidate = <<" ", " ">>
    /\ verdict.message = "Name cannot be empty"
    /\ verdict.severity = "Error"

\* C8: a well-formed candidate of trimmed length 1 or 2 gets a warning, not
\* an error, and the input boxes of renameBlock and createBlock accept it.
C8_ShortNameWarns ==
    (Validated /\ WellFormed(Strip(candidate)) /\ Len(Strip(candidate)) \in {1, 2}) =>
        /\ verdict.severity = "Warning"
        /\ verdict.message = "Descriptive names usually contain at least 3 symbols"
        /\ cmd = "renameBlock" => ENABLED showInputBox_onDidAccept
        /\ cmd = "createBlock" => ENABLED inputName

C8_Witness ==
    /\ cmd = "renameBlock"
    /\ pc = "exec"
    /\ Len(invoked) = 1
    /\ invoked[1].sub = "rename"
    /\ invoked[1].args[2] = Bab

\* the new block name of a call of 'add' or 'rename'
NewNameOf(call) == IF call.sub = "rename" THEN call.args[2] ELSE call.args[1]

\* C9: createBlock and renameBlock never call 'add' or 'rename' with a new
\* block name that validateBlockName, on the inventory the command read,
\* rejects with an error.
C9_NoToolCallWithRejectedName ==
    \A i \in 1..Len(invoked) :
        invoked[i].sub \in {"add", "rename"} =>
            validateBlockName(existingBlocks, NewNameOf(invoked[i])).severity # "Error"

C9_Witness ==
    /\ cmd = "createBlock"
    /\ Len(invoked) = 1
    /\ invoked[1].sub = "add"
    /\ invoked[1].args[1] = <<"b", "_", "1">>
    /\ existingBlocks # <<>>

\* C10: in the multi-block branch the matching blocks are blocks of the
\* inventory, are exactly the blocks the pattern matches, are none iff no
\* block matches, and the inventory is the one the command read.
C10_PatternIsAFilter ==
    (cmd \in RegexCommands /\ msg.warning.kind = "multiple") =>
        LET inventory == {existingBlocks[i] : i \in 1..Len(existingBlocks)}
            matching == {msg.matching[i] : i \in 1..Len(msg.matching)}
        IN  /\ matching \subseteq inventory
            /\ \A b \in inventory : b \in matching <=> RegExpTest(blockName, b)
            /\ msg.matching = <<>> <=> ~\E b \in inventory : RegExpTest(blockName, b)
            /\ Cardinality(matching) = Len(msg.matching)
            /\ existingBlocks = IF cmd = "createPythonBindings"
                                THEN getCppBlocks(fs) ELSE getAllBlocks(fs)

C10_Witness ==
    /\ cmd = "removeBlock"
    /\ msg.warning.kind = "multiple"
    /\ Len(existingBlocks) = 2
    /\ Len(msg.matching) = 2
    /\ blockName = <<".", "*", "a", ".", "*">>

\* the picker-driven commands that return when they have no block name
PickerCommands ==
    {"createPythonBindings", "makeYamlFromImpl", "disableBlock", "removeBlock",
     "renameBlock"}

\* C11: a picker-driven command that was passed no block name and got none
\* from its picker does nothing: no confirmation is asked, no text for one
\* is prepared, no input box is opened and the tool is not called.
C11_NoNameNoOperation ==
    (cmd \in PickerCommands /\ blockName = <<>>) =>
        /\ invoked = <<>>
        /\ confirm = "none"
        /\ msg.warning.kind = "none"
        /\ pc \in {"pick", "pending", "done"}

C11_Witness ==
    /\ cmd = "makeYamlFromImpl"
    /\ pc = "pending"
    /\ blockName = <<>>
    /\ existingBlocks # <<>>
    /\ invoked = <<>>

\* the text a failure carries: its log when it has one, else its message
Verbatim(r) == IF r.log.defined THEN r.log.lines ELSE <<r.message>>

\* line is the last line of the log that is not empty, "" if it has none
IsLastLine(line, lines) ==
    \/ line = "" /\ \A i \in 1..Len(lines) : lines[i] = ""
    \/ \E i \in 1..Len(lines) :
        /\ lines[i] = line
        /\ line # ""
        /\ \A j \in (i + 1)..Len(lines) : lines[j] = ""

\* C12 as stated: when the tool fails the command raises a ModtoolError
\* whose text is the log or the message of the failure, unmodified, and no
\* success notification is shown.
C12_FailureVerbatim ==
    result.kind = "PythonShellError" =>
        /\ pc = "thrown"
        /\ error.name = "ModtoolError"
        /\ \/ error.message = <<result.message>>
           \/ result.log.defined /\ error.message = result.log.lines
        /\ shown = <<>>
        /\ opened = <<>>

\* C12 as amended: when the tool fails the command raises a ModtoolError and
\* shows no success notification; the text is the log, else the message, in
\* createBlock, createPythonBindings, makeYamlFromImpl, disableBlock,
\* removeBlock and renameBlock, the last non-empty line of the log, else the
\* message, in convertXmlToYaml, and in getModuleInfo the message, or a fixed
\* hint when the log contains 'ImportError'.
C12_FailureSurfaced ==
    result.kind = "PythonShellError" =>
        /\ pc = "thrown"
        /\ error.name = "ModtoolError"
        /\ shown = <<>>
        /\ opened = <<>>
        /\ cmd \notin {"convertXmlToYaml", "getModuleInfo"} =>
                error.message = Verbatim(result)
        /\ cmd = "convertXmlToYaml" =>
                IF result.log.defined
                THEN /\ Len(error.message) = 1
                     /\ IsLastLine(error.message[1], result.log.lines)
                ELSE error.message = <<result.message>>
        /\ cmd = "getModuleInfo" =>
                IF result.log.defined
                    /\ \E i \in 1..Len(result.log.lines) :
                            result.log.lines[i] = "ImportError: No module named gnuradio"
                THEN error.message =
                        <<"Python modules for GNURadio not found. Please check if GNURadio is installed on your system.">>
                ELSE error.message = <<result.message>>

C12_Witness ==
    /\ cmd = "convertXmlToYaml"
    /\ pc = "thrown"
    /\ result.kind = "PythonShellError"
    /\ Len(result.log.lines) = 3
    /\ error.name = "ModtoolError"
    /\ error.message = <<"ModToolException: block not found">>

\* the project with every missing directory read as an empty one
Present(disk) ==
    [d \in DOMAIN disk |-> IF disk[d].exists THEN disk[d] ELSE Dir(<<>>)]

\* C13: a missing directory is no error for getBlockFilesTree: it counts as
\* a directory with no file of the block, and the files found in the other
\* directories are returned.
C13_MissingDirectoryIsEmpty ==
    /\ (cmd = "getChildren" /\ expanded # <<>>) =>
            treeFiles = getBlockFilesTree(expanded, Present(fs))
    /\ error.name # "FileNotFound"

\* the place of a role in the presentation order
Rank(label) ==
    CASE label = "Block definition" -> 1
      [] label = "Implementation" -> 2
      [] label = "Public header" -> 3
      [] label \in {"Implementation source", "Implementation header"} -> 4
      [] label = "Python Tests" -> 5
      [] label = "C++ Tests" -> 6

InOrder(files) ==
    \A i, j \in 1..Len(files) : i < j => Rank(files[i].label) <= Rank(files[j].label)

\* C14: the records of getBlockFilesTree come in the order definition,
\* implementation, public header, implementation source or header, Python
\* tests, C++ tests: no record of an earlier group follows one of a later.
C14_PresentationOrder ==
    /\ (cmd = "getChildren" /\ expanded # <<>>) => InOrder(treeFiles.items)
    /\ cmd \in {"removeBlock", "renameBlock"} => InOrder(msg.files)

C14_Witness ==
    /\ cmd = "getChildren"
    /\ expanded = Bab
    /\ {"Block definition", "Implementation", "Public header", "Implementation source",
        "Python Tests", "C++ Tests"}
            \subseteq {treeFiles.items[i].label : i \in 1..Len(treeFiles.items)}

\* the records of lib listed for a block carry the role of their file
LibRoles(block, files) ==
    \A i \in 1..Len(files) :
        files[i].dir = "lib" =>
            /\ files[i].label \in
                    {"Implementation source", "Implementation header", "C++ Tests"}
            /\ files[i].label = "C++ Tests" =>
                    /\ filterBlockTests(files[i].name)
                    /\ mapBlockTests(files[i].name) = block
            /\ files[i].label = "Implementation header" =>
                    /\ extname(files[i].name) = ExtH
                    /\ ~filterBlockTests(files[i].name)
            /\ files[i].label = "Implementation source" =>
                    /\ extname(files[i].name) \in {ExtCc, ExtCpp, ExtCxx}
                    /\ ~filterBlockTests(files[i].name)

\* C15: of the files of lib, getBlockFilesTree lists an implementation
\* source under 'Implementation source', a header under 'Implementation
\* header' and a test under 'C++ Tests'; no test is listed under an
\* implementation role and no test of another block under 'C++ Tests'.
C15_LibRoles ==
    /\ (cmd = "getChildren" /\ expanded # <<>>) => LibRoles(expanded, treeFiles.items)
    /\ cmd \in {"removeBlock", "renameBlock"} => LibRoles(blockName, msg.files)

RECURSIVE MatchesWhole(_, _)
\* the pattern p matches the whole of s
MatchesWhole(p, s) ==
    IF p = <<>> THEN s = <<>>
    ELSE IF Len(p) >= 2 /\ p[2] = "*"
    THEN \/ MatchesWhole(Tail(Tail(p)), s)
         \/ s # <<>> /\ (p[1] = "." \/ p[1] = s[1]) /\ MatchesWhole(p, Tail(s))
    ELSE s # <<>> /\ (p[1] = "." \/ p[1] = s[1]) /\ MatchesWhole(Tail(p), Tail(s))

\* some part of b, possibly empty, is matched by f
ContainsMatch(f, b) ==
    \E i \in 1..(Len(b) + 1) : \E j \in (i - 1)..Len(b) : MatchesWhole(f, SubSeq(b, i, j))

\* the string the regex item of the fragment f resolves to
Wrapped(f) == <<".", "*">> \o f \o <<".", "*">>

\* C16: a fragment f that is no block of the inventory, accepted as a
\* regular expression, selects every block that contains a match of f
\* anywhere, and no other block.
C16_FragmentSearches ==
    \A f \in Patterns :
        (/\ cmd \in RegexCommands
         /\ blockName = Wrapped(f)
         /\ msg.warning.kind # "none"
         /\ \A i \in 1..Len(existingBlocks) : existingBlocks[i] # f) =>
            /\ msg.warning.kind = "multiple"
            /\ msg.matching =
                    SelectSeq(existingBlocks, LAMBDA b : ContainsMatch(f, b))

C16_Witness ==
    /\ cmd = "disableBlock"
    /\ pc = "confirm"
    /\ blockName = Wrapped(<<"b">>)
    /\ msg.matching = <<Baba, Bab>>

\* C19: createBlock calls 'add' at most once and only when the wizard has
\* finished, with the name, the block type and the language set; while the
\* wizard is unfinished, or was abandoned, nothing is called and no file is
\* opened.
C19_AddOnlyWhenFinished ==
    cmd = "createBlock" =>
        /\ Len(invoked) <= 1
        /\ invoked # <<>> =>
            /\ invoked[1].sub = "add"
            /\ state.finished
            /\ state.name # <<>>
            /\ state.blockType \in BlockTypes
            /\ state.language \in Languages
            /\ invoked[1].args = <<state.name>>
            /\ invoked[1].options.blockType = state.blockType
            /\ invoked[1].options.lang = state.language
        /\ ~state.finished => (invoked = <<>> /\ opened = <<>>)

C19_Witness ==
    /\ cmd = "createBlock"
    /\ pc = "done"
    /\ state.finished
    /\ Len(invoked) = 1
    /\ Len(opened) = 1
    /\ state.blockType = "sync"

\* C20: 'add' gets --add-cpp-qa only for the language C++ and
\* --add-python-qa only for a block type other than 'noblock'; for 'noblock'
\* in Python the step of the tests is never shown and neither flag is passed.
C20_QaFlags ==
    /\ \A i \in 1..Len(invoked) :
        invoked[i].sub = "add" =>
            LET o == invoked[i].options IN
            /\ o.addCppQa => o.lang = "cpp"
            /\ o.addPythonQa => o.blockType # "noblock"
            /\ (o.blockType = "noblock" /\ o.lang = "python") =>
                    (~o.addCppQa /\ ~o.addPythonQa)
    /\ state.prompt = "pickTests" =>
            ~(state.blockType = "noblock" /\ state.language = "python")

C20_Witness ==
    /\ cmd = "createBlock"
    /\ Len(invoked) = 1
    /\ invoked[1].options.blockType = "noblock"
    /\ invoked[1].options.lang = "cpp"
    /\ invoked[1].options.addCppQa
    /\ ~invoked[1].options.addPythonQa

\* C18: overlapping calls of getBlockFilesTree do not disturb each other:
\* however their directory reads interleave, each call settles as the call
\* run alone does, a step of one call leaves the other call as it was, and
\* no step writes the project on disk or the state of a command.
C18_CallsAreIndependent ==
    /\ [](\A p \in Callers :
            scans[p].pc \in {"returned", "rejected"} =>
                scans[p].settled = getBlockFilesTree(scans[p].block, fs))
    /\ [][/\ fs' = fs
          /\ commandVars' = commandVars
          /\ \A p \in Callers :
                (scans'[p].pc # scans[p].pc) =>
                    \A q \in Callers \ {p} :
                        [scans'[q] EXCEPT !.overlapped = FALSE]
                            = [scans[q] EXCEPT !.overlapped = FALSE]]_vars

C18_Witness ==
    /\ scans[1].pc = "returned"
    /\ scans[1].overlapped
    /\ scans[2].pc = "python"
    /\ scans[2].cppFiles # <<>>
    /\ scans[1].block = scans[2].block
    /\ Len(scans[1].settled.items) >= 4

\* the part of the inventory a command works on
SubsetOf(c, disk) ==
    CASE c = "createPythonBindings" -> getCppBlocks(disk)
      [] c = "convertXmlToYaml" -> getXmlBlocks(disk)
      [] c = "makeYamlFromImpl" -> getCppImplFiles(disk)

\* the information message a command shows for an empty inventory
NothingFound(c) ==
    CASE c = "createPythonBindings" -> "No C++ headers found"
      [] c = "convertXmlToYaml" -> "No XML found, no need to update!"
      [] c = "makeYamlFromImpl" -> "No C++ blocks found"

\* C21: createPythonBindings without header blocks, convertXmlToYaml without
\* legacy definitions and makeYamlFromImpl without implementation blocks
\* show their information message and nothing else: no picker, no
\* confirmation, no call of the tool. convertXmlToYaml calls
\* 'update --complete' only after 'Yes' was answered, and calls the tool at
\* most once, so never together with 'update <name>'.
C21_EmptySubsetStops ==
    /\ (/\ cmd \in {"createPythonBindings", "convertXmlToYaml", "makeYamlFromImpl"}
        /\ SubsetOf(cmd, fs) = <<>>) =>
            /\ pc = "done"
            /\ shown = <<[text |-> NothingFound(cmd), blocks |-> <<>>]>>
            /\ invoked = <<>>
            /\ pick = NoPick
            /\ confirm = "none"
            /\ msg = NoMsg
    /\ cmd = "convertXmlToYaml" =>
            /\ Len(invoked) <= 1
            /\ \A i \in 1..Len(invoked) :
                /\ invoked[i].sub = "update"
                /\ invoked[i].args = <<<<"--complete">>>> =>
                        (confirm = "Yes" /\ blockName = <<>>)
                /\ invoked[i].args # <<<<"--complete">>>> =>
                        (confirm = "none" /\ invoked[i].args = <<blockName>>
                            /\ blockName # <<>>)

C21_Witness ==
    /\ cmd = "convertXmlToYaml"
    /\ pc = "done"
    /\ getAllBlocks(fs) # <<>>
    /\ getXmlBlocks(fs) = <<>>
    /\ shown = <<[text |-> "No XML found, no need to update!", blocks |-> <<>>]>>
    /\ invoked = <<>>

\* the members of a sequence
Range(s) == {s[i] : i \in 1..Len(s)}

\* C22: the root of the tree lists each block of the inventory once and no
\* other label; the context value of an item is 'block', then '.cpp' iff
\* the block has a public header, then '.xml' iff it has a legacy
\* definition, hence one of four values.
C22_RootItems ==
    cmd = "getChildren" =>
        /\ Range([i \in 1..Len(treeRoot) |-> treeRoot[i].label]) =
                Range(getCppBlocks(fs)) \cup Range(getGrcBlocks(fs))
                    \cup Range(getXmlBlocks(fs)) \cup Range(getPyBlocks(fs))
                    \cup Range(getCppImplFiles(fs))
        /\ \A i, j \in 1..Len(treeRoot) :
                treeRoot[i].label = treeRoot[j].label => i = j
        /\ \A i \in 1..Len(treeRoot) :
            LET name == treeRoot[i].label
                cpp == name \in Range(getCppBlocks(fs))
                xml == name \in Range(getXmlBlocks(fs))
            IN  treeRoot[i].contextValue =
                    CASE cpp /\ xml -> "block.cpp.xml"
                      [] cpp /\ ~xml -> "block.cpp"
                      [] ~cpp /\ xml -> "block.xml"
                      [] OTHER -> "block"

C22_Witness ==
    /\ cmd = "getChildren"
    /\ Len(treeRoot) = 2
    /\ \E i, j \in 1..Len(treeRoot) :
        /\ treeRoot[i].label = Bab
        /\ treeRoot[i].contextValue = "block.cpp"
        /\ treeRoot[j].label = Baba
        /\ treeRoot[j].contextValue = "block.cpp.xml"

\* the entries of the project that pass a filter of getBlockFilesTree for
\* the block and are no files
NonFilesOf(block, disk) ==
    LET selected ==
            {e \in Range(disk.grc.entries) : DefinitionOfBlock(block, e.name)}
                \cup {e \in Range(disk.include.entries) : HeaderOfBlock(block, e.name)}
                \cup {e \in Range(disk.python.entries) :
                        PyOfBlock(block, e.name) \/ PyTestOfBlock(block, e.name)}
                \cup {e \in Range(disk.lib.entries) :
                        ImplOfBlock(block, e.name) \/ CppTestOfBlock(block, e.name)}
    IN  {e \in selected : e.type # "File"}

\* the project without its entries that are no files
FilesOnly(disk) ==
    [d \in DOMAIN disk |->
        [disk[d] EXCEPT !.entries = SelectSeq(@, LAMBDA e : e.type = "File")]]

\* C23: every record of getBlockFilesTree is a regular file of its
\* directory; an entry that passes a filter for the block and is no file
\* makes the call fail with 'Expected a file, got something else' and
\* return no record; the other entries that are no files change nothing.
C23_OnlyRegularFiles ==
    (cmd = "getChildren" /\ expanded # <<>>) =>
        /\ \A i \in 1..Len(treeFiles.items) :
                File(treeFiles.items[i].name) \in Range(fs[treeFiles.items[i].dir].entries)
        /\ NonFilesOf(expanded, fs) # {} =>
                treeFiles = Fail(ErrNotAFile)
        /\ NonFilesOf(expanded, fs) = {} =>
                treeFiles = getBlockFilesTree(expanded, FilesOnly(fs))

\* C24: while a picker of quickPickWithRegex is open its list holds at most
\* one 'Regular expression' item, and the label of that item is the value
\* typed at present, so that accepting it resolves to '.*' + value + '.*'.
C24_RegexItemIsCurrent ==
    (pc = "pick" /\ cmd \in RegexCommands \cup {"makeYamlFromImpl"}) =>
        /\ Cardinality({i \in 1..Len(pick.items) : pick.items[i].regex}) <= 1
        /\ \A i \in 1..Len(pick.items) :
            pick.items[i].regex =>
                /\ pick.items[i].label = pick.value
                /\ RegexSelection(pick.items[i]) = <<".", "*">> \o pick.value \o <<".", "*">>

\* C25: a command that opens a picker completes: once its picker is closed,
\* by an accepted item or by a dismissal, the command has returned or
\* thrown, or it still has a step to take.
C25_PickerCommandsSettle ==
    (/\ cmd \in PickerCommands \cup {"convertXmlToYaml"}
     /\ pc # "pick") =>
        \/ pc \in {"done", "thrown"}
        \/ ENABLED Next

\* the step number each prompt of the wizard shows
StepOf(prompt) ==
    CASE prompt = "inputAuthor" -> 1
      [] prompt = "inputName" -> 2
      [] prompt = "pickBlockType" -> 3
      [] prompt = "pickLanguage" -> 4
      [] prompt = "pickTests" -> 5

\* C26: in the wizard of createBlock totalSteps is 4 or 5, each prompt shows
\* its own step number (author 1, name 2, type 3, language 4, tests 5) and
\* that number exceeds neither the total it shows nor totalSteps, also after
\* going back and choosing another block type or language.
C26_StepWithinTotal ==
    cmd = "createBlock" =>
        /\ state.totalSteps \in {4, 5}
        /\ state.prompt # "none" =>
            /\ state.step = StepOf(state.prompt)
            /\ state.shownTotal \in {4, 5}
            /\ state.step <= state.shownTotal
            /\ state.step <= state.totalSteps

C26_Witness ==
    /\ cmd = "createBlock"
    /\ pc = "wizard"
    /\ state.prompt = "pickTests"
    /\ state.blockType = "noblock"
    /\ state.language = "cpp"
    /\ state.step = 5
    /\ state.shownTotal = 5

====
